---- MODULE Spec2Model ----
(***************************************************************************)
(* Model of Kokkos::Impl::TaskQueueCommonMixin                             *)
(* (core/src/impl/Kokkos_TaskQueueCommon.hpp): the ready count, the two    *)
(* complete overloads, _complete_finished_task,                            *)
(* _schedule_runnable_to_queue and schedule_aggregate, run by several      *)
(* workers at the granularity of their accesses to shared memory.          *)
(*                                                                         *)
(* A worker is a call stack of frames.  Every step of a frame is one       *)
(* access to shared state (an atomic operation of the task node or of the  *)
(* queue, or a plain access to a field of a task) together with the local  *)
(* computation around it.                                                  *)
(*                                                                         *)
(* The task node (wait queue, reference count, fields), the ready queue,   *)
(* the allocator and the driver that spawns, pops and runs tasks are       *)
(* collaborators of the mixin and are modelled from their interface.       *)
(* Storage given back by deallocate is not handed out again (every task    *)
(* has its own identity), so a node that was deallocated keeps the values  *)
(* it had; the accesses made to it afterwards are recorded in uaf.         *)
(***************************************************************************)
EXTENDS Integers, Sequences, FiniteSets, TLC

NumTasks    == 3    \* tasks the driver may create
NumWorkers  == 2    \* concurrent workers
MaxRespawns == 1    \* respawn requests over a run

Tasks   == 1..NumTasks
Workers == 1..NumWorkers
NoTask  == 0        \* nullptr

VARIABLES
  kind,           \* task -> "none" (not created) | "runnable" | "aggregate"
  m_predecessor,  \* runnable task -> its predecessor, or NoTask
  respawn_flag,   \* runnable task -> BOOLEAN
  deps,           \* aggregate task -> its predecessor slots (NoTask = nullptr)
  refcount,       \* task -> reference count
  wait_queue,     \* task -> tasks appended to its wait queue, latest first
  closed,         \* task -> its wait queue was consumed (no more waiters)
  ready_queue,    \* tasks in the ready queue
  m_ready_count,  \* the mixin's counter
  stack,          \* worker -> call stack, innermost frame last
  future,         \* task -> the driver still holds a future on it
  respawns,       \* respawn requests made so far
  events,         \* task -> its history: "i"/"d" ready count incremented or
                  \* decremented for it, "p" it was pushed to the ready
                  \* queue, "r" complete took the respawn branch, "a" it
                  \* was appended to a wait queue
  finalized,      \* task -> times _complete_finished_task consumed its queue
  deallocated,    \* task -> times deallocate was called on it
  appended,       \* task -> times a try_add_waiting of it succeeded
  dispatched,     \* task -> times a drain handed it to a schedule call
  dependences,    \* task -> the predecessors it was last given (at its
                  \* creation, or by the respawn request of its body)
  uaf             \* some step accessed a task after its deallocation

vars == << kind, m_predecessor, respawn_flag, deps, refcount, wait_queue,
           closed, ready_queue, m_ready_count, stack, future, respawns,
           events, finalized, deallocated, appended, dispatched, dependences,
           uaf >>

taskVars  == << kind, m_predecessor, respawn_flag, deps >>
ghostVars == << events, finalized, deallocated, appended, dispatched,
dependences >>

----------------------------------------------------------------------------
(* Call stacks *)

Frame(op, pc, task, init) ==
  [ op |-> op, pc |-> pc, task |-> task, init |-> init,
    predecessor |-> NoTask,          \* local predecessor / pred_ptr
    pred_not_ready |-> FALSE,        \* result of try_add_waiting
    task_is_ready |-> TRUE,          \* local of _schedule_runnable_to_queue
    queue |-> << >>,                 \* waiters taken by consume_wait_queue
    req |-> FALSE ]                  \* the body that just ran asked to respawn

Busy(w)  == stack[w] # << >>
Top(w)   == stack[w][Len(stack[w])]
SetTop(w, f)    == [stack EXCEPT ![w] = [@ EXCEPT ![Len(@)] = f]]
Return(w)       == [stack EXCEPT ![w] = SubSeq(@, 1, Len(@) - 1)]
Call(w, f, g)   == [stack EXCEPT ![w] = Append([@ EXCEPT ![Len(@)] = f], g)]
At(w, op, pc)   == Busy(w) /\ Top(w).op = op /\ Top(w).pc = pc

\* the initial schedule call of task t has returned: its future can be used
Spawned(t) ==
  /\ kind[t] # "none"
  /\ \A w \in Workers : ~(Busy(w) /\ stack[w][1].init /\ stack[w][1].task = t)

----------------------------------------------------------------------------
(* Task node primitives *)

\* try_add_waiting: the append succeeds unless the queue was consumed
try_add_waiting(p) == ~closed[p]

\* decrement_and_check_reference_count: true when the count reaches zero
decrement_and_check_reference_count(t) == refcount[t] - 1 = 0

Released(rc, t) == [rc EXCEPT ![t] = @ - 1]
Deallocate(t) ==
  deallocated' = IF decrement_and_check_reference_count(t)
                 THEN [deallocated EXCEPT ![t] = @ + 1] ELSE deallocated

Dead(t) == deallocated[t] > 0

----------------------------------------------------------------------------
(* The mixin's decisions, one operator per condition of the source *)

\* complete(RunnableTaskBase&&): if(task.get_respawn_flag())
TakesRespawnBranch(flag) == flag

\* variant: the task is taken to be ready whatever the append returned
TaskIsReady_Always(predecessor_not_ready) == TRUE

\* _schedule_runnable_to_queue: task_is_ready = not predecessor_not_ready
TaskIsReady(predecessor_not_ready) == ~predecessor_not_ready

\* _schedule_runnable_to_queue: if(task.get_respawn_flag()) release predecessor
ReleasesPredecessor(flag) == flag

\* variant: the scan goes on after a successful append
IncompleteDependenceFound_Never(pred_not_ready) == FALSE

\* schedule_aggregate: incomplete_dependence_found = pred_not_ready
IncompleteDependenceFound(pred_not_ready) == pred_not_ready

\* variants: the atomic update is left out
Incremented_Forgotten(c) == c
Decremented_Forgotten(c) == c

\* _increment_ready_count / _decrement_ready_count
Incremented(c) == c + 1
Decremented(c) == c - 1

\* is_done
is_done == m_ready_count = 0

\* variant: the scan goes from the first slot to the last
RECURSIVE NextSlot_FirstToLast(_, _)
NextSlot_FirstToLast(d, i) ==
  IF i = 0 THEN 0
  ELSE LET below == NextSlot_FirstToLast(d, i - 1)
       IN IF below # 0 THEN below ELSE IF d[i] # NoTask THEN i ELSE 0

\* schedule_aggregate's loop: the slot the scan visits next, the highest
\* one that is not nullptr (the slots above it were nulled by earlier visits)
RECURSIVE NextSlot(_, _)
NextSlot(d, i) == IF i = 0 THEN 0
                  ELSE IF d[i] # NoTask THEN i ELSE NextSlot(d, i - 1)

----------------------------------------------------------------------------
Init ==
  /\ kind = [t \in Tasks |-> "none"]
  /\ m_predecessor = [t \in Tasks |-> NoTask]
  /\ respawn_flag = [t \in Tasks |-> FALSE]
  /\ deps = [t \in Tasks |-> << >>]
  /\ refcount = [t \in Tasks |-> 0]
  /\ wait_queue = [t \in Tasks |-> << >>]
  /\ closed = [t \in Tasks |-> FALSE]
  /\ ready_queue = {}
  /\ m_ready_count = 0
  /\ stack = [w \in Workers |-> << >>]
  /\ future = [t \in Tasks |-> FALSE]
  /\ respawns = 0
  /\ events = [t \in Tasks |-> << >>]
  /\ finalized = [t \in Tasks |-> 0]
  /\ deallocated = [t \in Tasks |-> 0]
  /\ appended = [t \in Tasks |-> 0]
  /\ dispatched = [t \in Tasks |-> 0]
  /\ dependences = [t \in Tasks |-> << >>]
  /\ uaf = FALSE

----------------------------------------------------------------------------
(* The driver *)

\* tasks whose future the driver can name as a dependence of task t
Nameable(t) == { q \in Tasks : q < t /\ future[q] /\ Spawned(q) }

RECURSIVE Ascending(_)
Ascending(S) == IF S = {} THEN << >>
                ELSE LET m == CHOOSE x \in S : \A y \in S : x <= y
                     IN << m >> \o Ascending(S \ {m})

NextTask == CHOOSE t \in Tasks : kind[t] = "none" /\ \A q \in Tasks : q < t => kind[q] # "none"

\* spawn of a runnable task, with or without a predecessor, and its
\* schedule_runnable call
SpawnRunnable(w) ==
  /\ ~Busy(w)
  /\ \E t \in Tasks : kind[t] = "none"
  /\ LET t == NextTask IN
     \E p \in Nameable(t) \cup {NoTask} :
       /\ kind' = [kind EXCEPT ![t] = "runnable"]
       /\ m_predecessor' = [m_predecessor EXCEPT ![t] = p]
       /\ refcount' = [refcount EXCEPT ![t] = 2]
       /\ future' = [future EXCEPT ![t] = TRUE]
       /\ dependences' = [dependences EXCEPT ![t] =
                             IF p = NoTask THEN << >> ELSE << p >>]
       /\ stack' = [stack EXCEPT ![w] =
                      << Frame("_schedule_runnable_to_queue", "append", t, TRUE) >>]
  /\ UNCHANGED << respawn_flag, deps, wait_queue, closed, ready_queue,
                  m_ready_count, respawns, events, finalized, deallocated,
                  appended, dispatched, uaf >>

\* when_all: an aggregate over futures the driver holds; every slot takes a
\* reference on its predecessor; then schedule_aggregate
SpawnAggregate(w) ==
  /\ ~Busy(w)
  /\ \E t \in Tasks : kind[t] = "none"
  /\ LET t == NextTask IN
     \E S \in (SUBSET Nameable(t)) \ {{}} :
       /\ kind' = [kind EXCEPT ![t] = "aggregate"]
       /\ deps' = [deps EXCEPT ![t] = Ascending(S)]
       /\ dependences' = [dependences EXCEPT ![t] = Ascending(S)]
       /\ refcount' = [q \in Tasks |-> IF q = t THEN 2
                                       ELSE IF q \in S THEN refcount[q] + 1
                                       ELSE refcount[q]]
       /\ future' = [future EXCEPT ![t] = TRUE]
       /\ stack' = [stack EXCEPT ![w] =
                      << Frame("schedule_aggregate", "scan", t, TRUE) >>]
  /\ UNCHANGED << m_predecessor, respawn_flag, wait_queue, closed, ready_queue,
                  m_ready_count, respawns, events, finalized, deallocated,
                  appended, dispatched, uaf >>

\* a future goes out of scope: its reference is released.  The future of a
\* predecessor named by a spawn stays alive until that spawn has returned.
DropFuture(t) ==
  /\ future[t] /\ Spawned(t)
  /\ \A w \in Workers :
       ~( /\ Busy(w) /\ stack[w][1].init
          /\ stack[w][1].op = "_schedule_runnable_to_queue"
          /\ t \in { m_predecessor[stack[w][1].task], stack[w][1].predecessor } )
  /\ future' = [future EXCEPT ![t] = FALSE]
  /\ refcount' = Released(refcount, t)
  /\ Deallocate(t)
  /\ uaf' = (uaf \/ Dead(t))
  /\ UNCHANGED << taskVars, wait_queue, closed, ready_queue, m_ready_count,
                  stack, respawns, events, finalized, appended, dispatched,
                  dependences >>

\* a worker pops a ready task and runs its body; the body either finishes or
\* asks to respawn, with or without a new dependence (which takes a
\* reference on the predecessor); then the worker calls complete
PopAndRun(w) ==
  /\ ~Busy(w)
  /\ \E t \in ready_queue :
       /\ ready_queue' = ready_queue \ {t}
       /\ \/ /\ stack' = [stack EXCEPT ![w] = << Frame("complete", "branch", t, FALSE) >>]
             /\ UNCHANGED << respawn_flag, m_predecessor, refcount, respawns,
                             dependences >>
          \/ /\ respawns < MaxRespawns
             /\ respawns' = respawns + 1
             /\ respawn_flag' = [respawn_flag EXCEPT ![t] = TRUE]
             /\ stack' = [stack EXCEPT ![w] =
                   << [Frame("complete", "branch", t, FALSE) EXCEPT !.req = TRUE] >>]
             /\ \E q \in Nameable(t) \cup {NoTask} :
                  /\ m_predecessor' = [m_predecessor EXCEPT ![t] = q]
                  /\ dependences' = [dependences EXCEPT ![t] =
                                        IF q = NoTask THEN << >> ELSE << q >>]
                  /\ refcount' = IF q = NoTask THEN refcount
                                 ELSE [refcount EXCEPT ![q] = @ + 1]
       /\ uaf' = (uaf \/ Dead(t))
  /\ UNCHANGED << kind, deps, wait_queue, closed, m_ready_count, future,
                  events, finalized, deallocated, appended, dispatched >>

----------------------------------------------------------------------------
(* complete(RunnableTaskBase&&) *)

\* variant: the respawn branch decrements the ready count before it
\* re-schedules the task, and has nothing left to do afterwards
CompleteBranch_DecrementFirst(w) ==
  /\ At(w, "complete", "branch")
  /\ LET f == Top(w)
         t == f.task
     IN /\ IF respawn_flag[t]
           THEN /\ m_ready_count' = m_ready_count - 1
                /\ events' = [events EXCEPT ![t] = @ \o << "r", "d" >>]
                /\ stack' = SetTop(w, Frame("_schedule_runnable_to_queue",
                                            "append", t, FALSE))
           ELSE /\ stack' = Call(w, [f EXCEPT !.pc = "decrement"],
                                 Frame("_complete_finished_task", "consume", t, FALSE))
                /\ UNCHANGED << m_ready_count, events >>
        /\ uaf' = (uaf \/ Dead(t))
  /\ UNCHANGED << taskVars, refcount, wait_queue, closed, ready_queue, future,
                  respawns, finalized, deallocated, appended, dispatched,
                  dependences >>

\* variant: a finished task's decrement of the ready count is made before
\* its waiters are notified instead of after
CompleteBranch_DecrementBeforeNotify(w) ==
  /\ At(w, "complete", "branch")
  /\ LET f == Top(w)
         t == f.task
     IN /\ IF respawn_flag[t]
           THEN /\ stack' = Call(w, [f EXCEPT !.pc = "decrement"],
                                 Frame("_schedule_runnable_to_queue", "append", t, FALSE))
                /\ events' = [events EXCEPT ![t] = Append(@, "r")]
                /\ UNCHANGED m_ready_count
           ELSE /\ m_ready_count' = m_ready_count - 1
                /\ events' = [events EXCEPT ![t] = Append(@, "d")]
                /\ stack' = SetTop(w, Frame("_complete_finished_task",
                                            "consume", t, FALSE))
        /\ uaf' = (uaf \/ Dead(t))
  /\ UNCHANGED << taskVars, refcount, wait_queue, closed, ready_queue, future,
                  respawns, finalized, deallocated, appended, dispatched,
                  dependences >>

\* if(task.get_respawn_flag()) schedule_runnable(task)
\* else _complete_finished_task(task)
CompleteBranch(w) ==
  /\ At(w, "complete", "branch")
  /\ LET f == Top(w)
         t == f.task
         g == IF TakesRespawnBranch(respawn_flag[t])
              THEN Frame("_schedule_runnable_to_queue", "append", t, FALSE)
              ELSE Frame("_complete_finished_task", "consume", t, FALSE)
     IN /\ stack' = Call(w, [f EXCEPT !.pc = "decrement"], g)
        /\ events' = IF TakesRespawnBranch(respawn_flag[t])
                     THEN [events EXCEPT ![t] = Append(@, "r")] ELSE events
        /\ uaf' = (uaf \/ Dead(t))
  /\ UNCHANGED << taskVars, refcount, wait_queue, closed, ready_queue,
                  m_ready_count, future, respawns, finalized, deallocated,
                  appended, dispatched, dependences >>

\* variant: the ready count is decremented only for a task that finished
CompleteDecrement_FinishedOnly(w) ==
  /\ At(w, "complete", "decrement")
  /\ IF Top(w).req
     THEN UNCHANGED << m_ready_count, events >>
     ELSE /\ m_ready_count' = m_ready_count - 1
          /\ events' = [events EXCEPT ![Top(w).task] = Append(@, "d")]
  /\ stack' = Return(w)
  /\ UNCHANGED << taskVars, refcount, wait_queue, closed, ready_queue, future,
                  respawns, finalized, deallocated, appended, dispatched, uaf,
                  dependences >>

\* _decrement_ready_count(), whether respawned or not
CompleteDecrement(w) ==
  /\ At(w, "complete", "decrement")
  /\ m_ready_count' = Decremented(m_ready_count)
  /\ events' = [events EXCEPT ![Top(w).task] = Append(@, "d")]
  /\ stack' = Return(w)
  /\ UNCHANGED << taskVars, refcount, wait_queue, closed, ready_queue, future,
                  respawns, finalized, deallocated, appended, dispatched, uaf,
                  dependences >>

----------------------------------------------------------------------------
(* _complete_finished_task; complete(AggregateTask&&) is a call of it *)

\* task.consume_wait_queue(...): the queue is closed and its waiters taken
FinishConsume(w) ==
  /\ At(w, "_complete_finished_task", "consume")
  /\ LET f == Top(w)
         t == f.task
     IN /\ wait_queue' = [wait_queue EXCEPT ![t] = << >>]
        /\ closed' = [closed EXCEPT ![t] = TRUE]
        /\ finalized' = [finalized EXCEPT ![t] = @ + 1]
        /\ stack' = SetTop(w, [f EXCEPT !.pc = "dispatch", !.queue = wait_queue[t]])
        /\ uaf' = (uaf \/ Dead(t))
  /\ UNCHANGED << taskVars, refcount, ready_queue, m_ready_count, future,
                  respawns, events, deallocated, appended, dispatched,
                  dependences >>

\* _schedule_waiting_tasks_operation on the next waiter taken
FinishDispatch(w) ==
  /\ At(w, "_complete_finished_task", "dispatch")
  /\ Top(w).queue # << >>
  /\ LET f == Top(w)
         u == Head(f.queue)
         g == IF kind[u] = "runnable"
              THEN Frame("_schedule_runnable_to_queue", "append", u, FALSE)
              ELSE Frame("schedule_aggregate", "scan", u, FALSE)
     IN /\ stack' = Call(w, [f EXCEPT !.queue = Tail(@)], g)
        /\ dispatched' = [dispatched EXCEPT ![u] = @ + 1]
        /\ uaf' = (uaf \/ Dead(u))
  /\ UNCHANGED << taskVars, refcount, wait_queue, closed, ready_queue,
                  m_ready_count, future, respawns, events, finalized,
                  deallocated, appended, dependences >>

\* should_delete = task.decrement_and_check_reference_count();
\* if(should_delete) deallocate(task)
FinishRelease(w) ==
  /\ At(w, "_complete_finished_task", "dispatch")
  /\ Top(w).queue = << >>
  /\ LET t == Top(w).task
     IN /\ refcount' = Released(refcount, t)
        /\ Deallocate(t)
        /\ uaf' = (uaf \/ Dead(t))
  /\ stack' = Return(w)
  /\ UNCHANGED << taskVars, wait_queue, closed, ready_queue, m_ready_count,
                  future, respawns, events, finalized, appended, dispatched,
                  dependences >>

----------------------------------------------------------------------------
(* _schedule_runnable_to_queue *)

\* lines 210-231: with a predecessor, take it from the task, clear it and
\* try_add_waiting; without one, go on to line 251 (the task is not shared
\* before it is pushed) and clear the respawn flag
ScheduleAppend(w) ==
  /\ At(w, "_schedule_runnable_to_queue", "append")
  /\ LET f == Top(w)
         t == f.task
         p == m_predecessor[t]
     IN IF p # NoTask
        THEN LET ok == try_add_waiting(p)
             IN /\ m_predecessor' = [m_predecessor EXCEPT ![t] = NoTask]
                /\ wait_queue' = IF ok THEN [wait_queue EXCEPT ![p] = << t >> \o @]
                                 ELSE wait_queue
                /\ appended' = IF ok THEN [appended EXCEPT ![t] = @ + 1]
                               ELSE appended
                /\ events' = IF ok THEN [events EXCEPT ![t] = Append(@, "a")]
                             ELSE events
                /\ stack' = SetTop(w, [f EXCEPT !.pc = "release",
                                                !.predecessor = p,
                                                !.pred_not_ready = ok,
                                                !.task_is_ready = TaskIsReady(ok)])
                /\ uaf' = (uaf \/ Dead(t) \/ Dead(p))
                /\ UNCHANGED respawn_flag
        ELSE /\ respawn_flag' = [respawn_flag EXCEPT ![t] = FALSE]
             /\ stack' = SetTop(w, [f EXCEPT !.pc = "increment"])
             /\ uaf' = (uaf \/ Dead(t))
             /\ UNCHANGED << m_predecessor, wait_queue, appended, events >>
  /\ UNCHANGED << kind, deps, refcount, closed, ready_queue, m_ready_count,
                  future, respawns, finalized, deallocated, dispatched,
                  dependences >>

\* lines 233-245: if(task.get_respawn_flag()) release the predecessor
ScheduleRelease(w) ==
  /\ At(w, "_schedule_runnable_to_queue", "release")
  /\ LET f == Top(w)
         t == f.task
         p == f.predecessor
     IN /\ IF ReleasesPredecessor(respawn_flag[t])
           THEN /\ refcount' = Released(refcount, p)
                /\ Deallocate(p)
                /\ uaf' = (uaf \/ Dead(t) \/ Dead(p))
           ELSE /\ UNCHANGED << refcount, deallocated >>
                /\ uaf' = (uaf \/ Dead(t))
        /\ stack' = SetTop(w, [f EXCEPT !.pc = "clear"])
  /\ UNCHANGED << taskVars, wait_queue, closed, ready_queue, m_ready_count,
                  future, respawns, events, finalized, appended, dispatched,
                  dependences >>

\* line 251: task.set_respawn_flag(false); then line 254: if(task_is_ready)
ScheduleClear(w) ==
  /\ At(w, "_schedule_runnable_to_queue", "clear")
  /\ LET f == Top(w)
         t == f.task
     IN /\ respawn_flag' = [respawn_flag EXCEPT ![t] = FALSE]
        /\ stack' = IF f.task_is_ready THEN SetTop(w, [f EXCEPT !.pc = "increment"])
                    ELSE Return(w)
        /\ uaf' = (uaf \/ Dead(t))
  /\ UNCHANGED << kind, m_predecessor, deps, refcount, wait_queue, closed,
                  ready_queue, m_ready_count, future, respawns, ghostVars >>

\* variant: the task is pushed first and the ready count incremented after
ScheduleIncrement_AfterPush(w) ==
  \/ /\ At(w, "_schedule_runnable_to_queue", "increment")
     /\ ready_queue' = ready_queue \cup {Top(w).task}
     /\ events' = [events EXCEPT ![Top(w).task] = Append(@, "p")]
     /\ stack' = SetTop(w, [Top(w) EXCEPT !.pc = "increment after push"])
     /\ UNCHANGED << taskVars, refcount, wait_queue, closed, m_ready_count,
                     future, respawns, finalized, deallocated, appended,
                     dispatched, dependences, uaf >>
  \/ /\ At(w, "_schedule_runnable_to_queue", "increment after push")
     /\ m_ready_count' = m_ready_count + 1
     /\ events' = [events EXCEPT ![Top(w).task] = Append(@, "i")]
     /\ stack' = Return(w)
     /\ UNCHANGED << taskVars, refcount, wait_queue, closed, ready_queue,
                     future, respawns, finalized, deallocated, appended,
                     dispatched, dependences, uaf >>

\* line 256: _increment_ready_count()
ScheduleIncrement(w) ==
  /\ At(w, "_schedule_runnable_to_queue", "increment")
  /\ m_ready_count' = Incremented(m_ready_count)
  /\ events' = [events EXCEPT ![Top(w).task] = Append(@, "i")]
  /\ stack' = SetTop(w, [Top(w) EXCEPT !.pc = "push"])
  /\ UNCHANGED << taskVars, refcount, wait_queue, closed, ready_queue, future,
                  respawns, finalized, deallocated, appended, dispatched, uaf,
                  dependences >>

\* line 258: ready_queue.push(task)
SchedulePush(w) ==
  /\ At(w, "_schedule_runnable_to_queue", "push")
  /\ ready_queue' = ready_queue \cup {Top(w).task}
  /\ events' = [events EXCEPT ![Top(w).task] = Append(@, "p")]
  /\ stack' = Return(w)
  /\ UNCHANGED << taskVars, refcount, wait_queue, closed, m_ready_count,
                  future, respawns, finalized, deallocated, appended,
                  dispatched, dependences, uaf >>

----------------------------------------------------------------------------
(* schedule_aggregate *)

\* variant: a completed aggregate goes through the complete of a runnable
\* task, which decrements the ready count
AggregateScan_CompleteAsRunnable(w) ==
  /\ At(w, "schedule_aggregate", "scan")
  /\ LET f == Top(w)
         t == f.task
         i == NextSlot(deps[t], Len(deps[t]))
     IN IF i # 0
        THEN LET p  == deps[t][i]
                 ok == try_add_waiting(p)
             IN /\ deps' = [deps EXCEPT ![t][i] = NoTask]
                /\ wait_queue' = IF ok THEN [wait_queue EXCEPT ![p] = << t >> \o @]
                                 ELSE wait_queue
                /\ appended' = IF ok THEN [appended EXCEPT ![t] = @ + 1]
                               ELSE appended
                /\ stack' = SetTop(w, [f EXCEPT !.pc = "release",
                                                !.predecessor = p,
                                                !.pred_not_ready = ok])
                /\ uaf' = (uaf \/ Dead(t) \/ Dead(p))
        ELSE /\ stack' = Call(w, Frame("complete", "decrement", t, f.init),
                                 Frame("_complete_finished_task", "consume", t, f.init))
             /\ uaf' = (uaf \/ Dead(t))
             /\ UNCHANGED << deps, wait_queue, appended >>
  /\ UNCHANGED << kind, m_predecessor, respawn_flag, refcount, closed,
                  ready_queue, m_ready_count, future, respawns, events,
                  finalized, deallocated, dispatched, dependences >>

\* lines 276-293 for the next slot that is not nullptr: null it and
\* try_add_waiting on its predecessor; lines 305-308 when no slot is left
AggregateScan(w) ==
  /\ At(w, "schedule_aggregate", "scan")
  /\ LET f == Top(w)
         t == f.task
         i == NextSlot(deps[t], Len(deps[t]))
     IN IF i # 0
        THEN LET p  == deps[t][i]
                 ok == try_add_waiting(p)
             IN /\ deps' = [deps EXCEPT ![t][i] = NoTask]
                /\ wait_queue' = IF ok THEN [wait_queue EXCEPT ![p] = << t >> \o @]
                                 ELSE wait_queue
                /\ appended' = IF ok THEN [appended EXCEPT ![t] = @ + 1]
                               ELSE appended
                /\ stack' = SetTop(w, [f EXCEPT !.pc = "release",
                                                !.predecessor = p,
                                                !.pred_not_ready = ok])
                /\ uaf' = (uaf \/ Dead(t) \/ Dead(p))
        ELSE /\ stack' = SetTop(w, [Frame("_complete_finished_task", "consume", t, f.init)
                                      EXCEPT !.req = FALSE])
             /\ uaf' = (uaf \/ Dead(t))
             /\ UNCHANGED << deps, wait_queue, appended >>
  /\ UNCHANGED << kind, m_predecessor, respawn_flag, refcount, closed,
                  ready_queue, m_ready_count, future, respawns, events,
                  finalized, deallocated, dispatched, dependences >>

\* variant: the slot's reference is released only when the append failed
AggregateRelease_OnFailureOnly(w) ==
  /\ At(w, "schedule_aggregate", "release")
  /\ LET f == Top(w)
         p == f.predecessor
     IN /\ IF f.pred_not_ready
           THEN UNCHANGED << refcount, deallocated >>
           ELSE refcount' = Released(refcount, p) /\ Deallocate(p)
        /\ uaf' = (uaf \/ Dead(p))
        /\ stack' = IF f.pred_not_ready THEN Return(w)
                    ELSE SetTop(w, [f EXCEPT !.pc = "scan"])
  /\ UNCHANGED << taskVars, wait_queue, closed, ready_queue, m_ready_count,
                  future, respawns, events, finalized, appended, dispatched,
                  dependences >>

\* lines 297-301: release the slot's reference on the predecessor; then the
\* loop condition: the call returns once an incomplete dependence was found
AggregateRelease(w) ==
  /\ At(w, "schedule_aggregate", "release")
  /\ LET f == Top(w)
         p == f.predecessor
     IN /\ refcount' = Released(refcount, p)
        /\ Deallocate(p)
        /\ uaf' = (uaf \/ Dead(p))
        /\ stack' = IF IncompleteDependenceFound(f.pred_not_ready) THEN Return(w)
                    ELSE SetTop(w, [f EXCEPT !.pc = "scan"])
  /\ UNCHANGED << taskVars, wait_queue, closed, ready_queue, m_ready_count,
                  future, respawns, events, finalized, appended, dispatched,
                  dependences >>

----------------------------------------------------------------------------
Next ==
  \/ \E w \in Workers : SpawnRunnable(w)
  \/ \E w \in Workers : SpawnAggregate(w)
  \/ \E t \in Tasks : DropFuture(t)
  \/ \E w \in Workers : PopAndRun(w)
  \/ \E w \in Workers : CompleteBranch(w)
  \/ \E w \in Workers : CompleteDecrement(w)
  \/ \E w \in Workers : FinishConsume(w)
  \/ \E w \in Workers : FinishDispatch(w)
  \/ \E w \in Workers : FinishRelease(w)
  \/ \E w \in Workers : ScheduleAppend(w)
  \/ \E w \in Workers : ScheduleRelease(w)
  \/ \E w \in Workers : ScheduleClear(w)
  \/ \E w \in Workers : ScheduleIncrement(w)
  \/ \E w \in Workers : SchedulePush(w)
  \/ \E w \in Workers : AggregateScan(w)
  \/ \E w \in Workers : AggregateRelease(w)

Spec == Init /\ [][Next]_vars

\* a step of worker w inside the queue: it pops and runs a ready task, or
\* takes the next step of the call it is in
WorkerStep(w) ==
  \/ PopAndRun(w)
  \/ CompleteBranch(w) \/ CompleteDecrement(w)
  \/ FinishConsume(w) \/ FinishDispatch(w) \/ FinishRelease(w)
  \/ ScheduleAppend(w) \/ ScheduleRelease(w) \/ ScheduleClear(w)
  \/ ScheduleIncrement(w) \/ SchedulePush(w)
  \/ AggregateScan(w) \/ AggregateRelease(w)

\* workers are fair: a call that was entered runs to its end and a ready task
\* is eventually popped, run and completed; the driver lets go of its futures
Fairness ==
  /\ \A w \in Workers : WF_vars(WorkerStep(w))
  /\ \A t \in Tasks : WF_vars(DropFuture(t))

FairSpec == Spec /\ Fairness

----------------------------------------------------------------------------
(* Vocabulary of the properties *)

Frames == UNION { { << w, k >> : k \in DOMAIN stack[w] } : w \in Workers }
FrameAt(x) == stack[x[1]][x[2]]

\* the places where task t sits as a waiter: a position of a wait queue, or
\* of the waiters a drain has taken and not yet dispatched
PendingPlaces(t) ==
  UNION { { << "wait", p, i >> : i \in { j \in DOMAIN wait_queue[p] :
                                          wait_queue[p][j] = t } } : p \in Tasks }
  \cup
  UNION { { << "drain", x, i >> : i \in { j \in DOMAIN FrameAt(x).queue :
                                           FrameAt(x).queue[j] = t } } : x \in Frames }

\* a call is treating task t as its own, ready to go on: it is being
\* scheduled, pushed, completed or finalized
ProceedsAsReady(t) ==
  \E x \in Frames :
    LET f == FrameAt(x) IN
    /\ f.task = t
    /\ \/ /\ f.op = "_schedule_runnable_to_queue"
          /\ f.pc \in {"append", "increment", "push"}
       \/ f.op = "schedule_aggregate" /\ (f.pc = "scan" \/ ~f.pred_not_ready)
       \/ f.op = "complete" /\ f.pc = "branch"
       \/ f.op = "_complete_finished_task"

Idle      == \A w \in Workers : ~Busy(w)
Quiescent == ready_queue = {} /\ Idle

Count(t, e) == Cardinality({ i \in DOMAIN events[t] : events[t][i] = e })
Incs(t) == Count(t, "i")
Decs(t) == Count(t, "d")

\* the history of t restricted to its ready-count events
RECURSIVE ReadyCountEvents(_)
ReadyCountEvents(s) ==
  IF s = << >> THEN << >>
  ELSE IF Head(s) \in {"i", "d"} THEN << Head(s) >> \o ReadyCountEvents(Tail(s))
  ELSE ReadyCountEvents(Tail(s))

IsPrefix(s, full) == Len(s) <= Len(full) /\ s = SubSeq(full, 1, Len(s))

\* popped and not yet returned from complete
Running(t) ==
  \E x \in Frames : FrameAt(x).op = "complete" /\ FrameAt(x).task = t

\* a schedule call has incremented the ready count for t and not yet pushed t
AboutToBePushed(t) ==
  \E x \in Frames : /\ FrameAt(x).op = "_schedule_runnable_to_queue"
                    /\ FrameAt(x).pc = "push" /\ FrameAt(x).task = t

\* the activations of t the ready count accounts for: its presence in the
\* ready queue, every complete call on it that has not yet returned, and
\* every schedule call that has incremented the count and is about to push it
Outstanding(t) ==
  (IF t \in ready_queue THEN 1 ELSE 0)
  + Cardinality({ x \in Frames :
        /\ FrameAt(x).task = t
        /\ \/ FrameAt(x).op = "complete"
           \/ /\ FrameAt(x).op = "_schedule_runnable_to_queue"
              /\ FrameAt(x).pc = "push" })

RECURSIVE Sum(_, _)
Sum(f(_), S) == IF S = {} THEN 0
                ELSE LET x == CHOOSE y \in S : TRUE IN f(x) + Sum(f, S \ {x})

\* t sits in a wait queue
Waiting(t) == \E p \in Tasks : \E i \in DOMAIN wait_queue[p] : wait_queue[p][i] = t

----------------------------------------------------------------------------
\* C1: no lost wakeups.  A waiter is dispatched by a drain at most once per
\* successful append and sits in exactly one wait queue (or taken drain list)
\* between its append and its dispatch; a consumed queue holds no waiter (an
\* append that comes after the drain fails, so nobody is stranded); and a
\* task that sits as a waiter is not at the same time pushed, scheduled or
\* completed by anyone: it is scheduled by the failed append or by the drain,
\* never by both.
C1_NoLostWakeup ==
  \A t \in Tasks :
    /\ dispatched[t] <= appended[t]
    /\ Cardinality(PendingPlaces(t)) = appended[t] - dispatched[t]
    /\ Cardinality(PendingPlaces(t)) <= 1
    /\ closed[t] => wait_queue[t] = << >>
    /\ PendingPlaces(t) # {} => t \notin ready_queue /\ ~ProceedsAsReady(t)

\* both outcomes of the race have happened: one waiter was appended and
\* later dispatched by the drain, another found its predecessor consumed
C1_Witness ==
  /\ \E t \in Tasks : dispatched[t] = 1 /\ t \in ready_queue
  /\ \E w \in Workers :
       /\ At(w, "_schedule_runnable_to_queue", "increment")
       /\ Top(w).predecessor # NoTask /\ ~Top(w).pred_not_ready

----------------------------------------------------------------------------
\* the next step of worker w reads or writes a field of task t itself (its
\* respawn flag, its predecessor, its predecessor slots)
AccessesOwnFields(w, t) ==
  /\ Busy(w) /\ Top(w).task = t
  /\ \/ /\ Top(w).op = "_schedule_runnable_to_queue"
        /\ Top(w).pc \in {"append", "release", "clear"}
     \/ Top(w).op = "schedule_aggregate" /\ Top(w).pc = "scan"
     \/ Top(w).op = "complete" /\ Top(w).pc = "branch"

\* C2: once try_add_waiting(task) has succeeded, _schedule_runnable_to_queue
\* does not read or write a field of the task again (no call is past the read
\* of the respawn flag at line 233 with a successful append behind it), and no
\* two workers are about to access the fields of the same task.
C2_NoAccessAfterAppend ==
  /\ \A w \in Workers :
       ~(At(w, "_schedule_runnable_to_queue", "clear") /\ Top(w).pred_not_ready)
  /\ \A w1, w2 \in Workers : \A t \in Tasks :
       w1 # w2 => ~(AccessesOwnFields(w1, t) /\ AccessesOwnFields(w2, t))

----------------------------------------------------------------------------
\* C3: exactly-once completion.  No task is finalized twice; a complete call
\* on a runnable task whose body asked to respawn does not finalize it; and
\* once the graph has drained every task created was finalized once.
C3_ExactlyOnceCompletion ==
  /\ \A t \in Tasks : finalized[t] <= 1
  /\ \A x \in Frames :
       (FrameAt(x).op = "complete" /\ FrameAt(x).req /\ x[2] < Len(stack[x[1]]))
         => stack[x[1]][x[2] + 1].op # "_complete_finished_task"
  /\ Quiescent => \A t \in Tasks : kind[t] # "none" => finalized[t] = 1

----------------------------------------------------------------------------
\* C4: reference-count soundness.  A task is deallocated at most once, its
\* count never goes below zero, and it is deallocated exactly when its count
\* has been taken to zero.
C4_ReferenceCountSound ==
  \A t \in Tasks :
    /\ deallocated[t] <= 1
    /\ refcount[t] >= 0
    /\ Dead(t) <=> (kind[t] # "none" /\ refcount[t] = 0)

----------------------------------------------------------------------------
\* C5: ready-count balance.  For every task the increments made for it exceed
\* the decrements made for it by exactly its outstanding activations (in the
\* ready queue, in a complete call that has not returned, incremented and
\* about to be pushed); so whenever it has none, at the end of its life or
\* while a respawn leaves it waiting on a predecessor, the two are equal.
C5_ReadyCountBalance ==
  \A t \in Tasks :
    /\ Incs(t) - Decs(t) = Outstanding(t)
    /\ (t \notin ready_queue /\ ~Running(t) /\ ~AboutToBePushed(t))
         => Incs(t) = Decs(t)

\* a task that ran once and respawned sits in a wait queue, its complete
\* call returned: one increment, one decrement
C5_Witness ==
  \E t \in Tasks : Waiting(t) /\ ~Running(t) /\ Incs(t) = 1 /\ Decs(t) = 1

----------------------------------------------------------------------------
\* C6 as stated: is_done() is true iff no runnable task is in the ready queue
\* or running (popped and not yet returned from complete).
C6_IsDoneIffNoneReadyOrRunning ==
  is_done <=> \A t \in Tasks : t \notin ready_queue /\ ~Running(t)

\* C6 as amended: is_done() is true iff no runnable task is in the ready
\* queue, running, or about to be pushed by a schedule call that has already
\* incremented the ready count.
C6_IsDoneIffNoneActive ==
  is_done <=> \A t \in Tasks :
                t \notin ready_queue /\ ~Running(t) /\ ~AboutToBePushed(t)

\* the queue is done again after a runnable task ran and was finalized
C6_Witness ==
  is_done /\ \E t \in Tasks : kind[t] = "runnable" /\ finalized[t] = 1

----------------------------------------------------------------------------
\* C7: aggregate resume correctness.  An aggregate is finalized at most once,
\* not before the wait queue of every one of its predecessors was consumed
\* (every predecessor is in its finalization or past it), and exactly once
\* by the time the graph has drained.
C7_AggregateResume ==
  \A g \in Tasks : kind[g] = "aggregate" =>
    /\ finalized[g] <= 1
    /\ finalized[g] >= 1 =>
         \A i \in DOMAIN dependences[g] : closed[dependences[g][i]]
    /\ Quiescent => finalized[g] = 1

\* an aggregate of two predecessors that was woken twice, once by each
\* predecessor, and then completed
C7_Witness ==
  \E g \in Tasks : /\ kind[g] = "aggregate" /\ Len(dependences[g]) = 2
                   /\ dispatched[g] = 2 /\ finalized[g] = 1

----------------------------------------------------------------------------
\* t was found ready, or was waiting or being resolved against a predecessor
BeingResolved(t) ==
  \E x \in Frames : /\ FrameAt(x).op = "_schedule_runnable_to_queue"
                    /\ FrameAt(x).task = t
                    /\ FrameAt(x).pc \in {"append", "release", "clear"}

\* C8 as stated: the ready count equals the number of runnable tasks pushed
\* to the ready queue and not yet completed by a non-respawning complete
\* (in the ready queue, or popped and their complete not returned), those
\* waiting on or being resolved against a predecessor not counted.
C8_CountEqualsPushedTasks ==
  m_ready_count =
    Cardinality({ t \in Tasks : /\ t \in ready_queue \/ Running(t)
                                /\ ~Waiting(t) /\ ~BeingResolved(t) })

\* C8 as amended: the ready count equals the number of increments not yet
\* matched by a decrement: one for each task in the ready queue, one for each
\* complete call that has not returned, one for each schedule call that has
\* incremented and not yet pushed; a waiting task contributes nothing once
\* the complete call that left it waiting has returned.
C8_CountEqualsOutstanding ==
  /\ m_ready_count = Sum(Outstanding, Tasks)
  /\ \A t \in Tasks : (Waiting(t) /\ ~Running(t)) => Outstanding(t) = 0

\* two activations of one task: re-pushed by a respawning complete that has
\* not yet decremented
C8_Witness ==
  \E t \in Tasks : t \in ready_queue /\ Running(t) /\ m_ready_count >= 2

----------------------------------------------------------------------------
\* t respawned once and that respawn found it ready at once: complete took the
\* respawn branch once and t was not appended to a wait queue after that
RespawnedOnceReady(t) ==
  /\ Count(t, "r") = 1
  /\ \A i, j \in DOMAIN events[t] :
       (events[t][i] = "r" /\ events[t][j] = "a") => j < i

\* C9 as stated: the ready-count events of a task that respawns once, ready
\* at once, are increment, decrement, increment, decrement in this order.
C9_DecrementBeforeReincrement ==
  \A t \in Tasks : RespawnedOnceReady(t) =>
    IsPrefix(ReadyCountEvents(events[t]), << "i", "d", "i", "d" >>)

\* C9 as amended: they are increment, increment, decrement, decrement: the
\* respawning complete re-increments (inside the respawn branch) before it
\* decrements; the task is finalized only by the second complete, after both
\* increments, and deallocated only after that finalization.
C9_ReincrementBeforeDecrement ==
  \A t \in Tasks : RespawnedOnceReady(t) =>
    /\ IsPrefix(ReadyCountEvents(events[t]), << "i", "i", "d", "d" >>)
    /\ finalized[t] >= 1 => Incs(t) = 2
    /\ Dead(t) => finalized[t] = 1

\* the task respawned once, ready at once, ran again, finished and was
\* deallocated: all four events happened
C9_Witness ==
  \E t \in Tasks : /\ RespawnedOnceReady(t) /\ Dead(t)
                   /\ ReadyCountEvents(events[t]) = << "i", "i", "d", "d" >>

----------------------------------------------------------------------------
\* C10: teardown.  When every task created has been finalized and no
\* operation is in progress the ready count is zero; with no operation in
\* progress a nonzero count means a task sits in the ready queue, pushed and
\* never completed.
C10_ZeroAtTeardown ==
  /\ (Idle /\ \A t \in Tasks : kind[t] # "none" => finalized[t] >= 1)
       => m_ready_count = 0
  /\ (Idle /\ m_ready_count # 0) => ready_queue # {}

\* the graph has drained after three tasks, one of them an aggregate, ran
C10_Witness ==
  /\ Quiescent
  /\ \A t \in Tasks : kind[t] # "none" /\ finalized[t] = 1
  /\ \E t \in Tasks : kind[t] = "aggregate"
  /\ \E t \in Tasks : Incs(t) = 2

----------------------------------------------------------------------------
\* a call still has an access to a field of t ahead of it (its predecessor,
\* its respawn flag, its predecessor slots, its wait queue as its finalizer):
\* the call acts as the local owner of t
LocallyOwned(t) ==
  \E x \in Frames :
    LET f == FrameAt(x) IN
    /\ f.task = t
    /\ \/ /\ f.op = "_schedule_runnable_to_queue"
          /\ f.pc \in {"append", "release", "clear"}
       \/ f.op = "schedule_aggregate" /\ f.pc = "scan"
       \/ f.op = "complete" /\ f.pc = "branch"
       \/ f.op = "_complete_finished_task" /\ f.pc = "consume"

\* the wait queues t sits in
WaitQueuesOf(t) ==
  { p \in Tasks : \E i \in DOMAIN wait_queue[p] : wait_queue[p][i] = t }

\* C11: exclusive ownership.  No task is in the ready queue and in a wait
\* queue at once, none is in two wait queues (or twice in one), and none is
\* in a queue while a schedule or complete call still acts as its local owner.
C11_ExclusiveOwnership ==
  \A t \in Tasks :
    /\ ~(t \in ready_queue /\ Waiting(t))
    /\ Cardinality(WaitQueuesOf(t)) <= 1
    /\ \A p \in Tasks :
         Cardinality({ i \in DOMAIN wait_queue[p] : wait_queue[p][i] = t }) <= 1
    /\ (t \in ready_queue \/ Waiting(t)) => ~LocallyOwned(t)

----------------------------------------------------------------------------
\* the part of history s that follows its last event e (all of s without e)
RECURSIVE AfterLast(_, _)
AfterLast(s, e) ==
  IF \A i \in DOMAIN s : s[i] # e THEN s
  ELSE AfterLast(Tail(s), e)

\* the part of history s that precedes its first event e
RECURSIVE Before(_, _)
Before(s, e) ==
  IF s = << >> \/ Head(s) = e THEN << >>
  ELSE << Head(s) >> \o Before(Tail(s), e)

RECURSIVE Only(_, _)
Only(s, E) ==
  IF s = << >> THEN << >>
  ELSE IF Head(s) \in E THEN << Head(s) >> \o Only(Tail(s), E)
  ELSE Only(Tail(s), E)

Has(s, e) == \E i \in DOMAIN s : s[i] = e

\* what happened to t between its last append to a wait queue and the next
\* respawn branch taken on it
SinceAppend(t) == Before(AfterLast(events[t], "a"), "r")

\* C12: a runnable task scheduled with an unfinished predecessor (its append
\* succeeded) is left waiting by that schedule call, which neither increments
\* the ready count nor pushes it.  It is pushed once, by the schedule call
\* that the drain of that predecessor's wait queue makes, inside the
\* predecessor's complete call that took the finishing branch; the ready count
\* is incremented once for that push, before the push.
C12_WaitingUntilDrained ==
  \A t \in Tasks : kind[t] = "runnable" =>
    /\ \A x \in Frames :
         ( /\ FrameAt(x).op = "_schedule_runnable_to_queue"
           /\ FrameAt(x).task = t /\ FrameAt(x).pred_not_ready )
         => FrameAt(x).pc \notin {"increment", "push"}
    /\ Has(events[t], "a") =>
         /\ IsPrefix(Only(SinceAppend(t), {"i", "p"}), << "i", "p" >>)
         /\ Only(SinceAppend(t), {"i", "p"}) = << >> => t \notin ready_queue
         /\ (Quiescent \/ finalized[t] >= 1 \/ Has(AfterLast(events[t], "a"), "r"))
              => Only(SinceAppend(t), {"i", "p"}) = << "i", "p" >>
         /\ \A x \in Frames :
              ( /\ FrameAt(x).op = "_schedule_runnable_to_queue"
                /\ FrameAt(x).task = t
                /\ FrameAt(x).pc \in {"increment", "push"}
                /\ ~Has(AfterLast(events[t], "a"), "r") )
              => /\ x[2] > 1
                 /\ LET drain == stack[x[1]][x[2] - 1]
                        A     == drain.task
                    IN /\ drain.op = "_complete_finished_task"
                       /\ drain.pc = "dispatch"
                       /\ dependences[t] = << A >>
                       /\ kind[A] = "runnable" =>
                            /\ x[2] > 2
                            /\ stack[x[1]][x[2] - 2].op = "complete"
                            /\ stack[x[1]][x[2] - 2].task = A
                            /\ stack[x[1]][x[2] - 2].pc = "decrement"

\* B was appended to its predecessor's wait queue, dispatched by the drain
\* and pushed: it is in the ready queue after append, increment, push
C12_Witness ==
  \E t \in Tasks :
    /\ kind[t] = "runnable" /\ t \in ready_queue /\ dispatched[t] = 1
    /\ events[t] = << "a", "i", "p" >>
    /\ kind[dependences[t][1]] = "runnable"

----------------------------------------------------------------------------
\* every task appended to a wait queue was taken by a drain and handed to a
\* schedule call, every task created was finalized and deallocated, and
\* is_done() is true
Settled ==
  /\ \A t \in Tasks : appended[t] = dispatched[t]
  /\ \A t \in Tasks : kind[t] # "none" => (finalized[t] >= 1 /\ Dead(t))
  /\ is_done

\* C13: liveness, for the finite acyclic graphs the driver builds, with
\* finitely many respawns and fair workers.  Every task appended to a wait
\* queue is eventually drained and scheduled, every task created is
\* eventually finalized and deallocated, and eventually is_done() is true
\* and stays true.  Tasks are created, finalized and deallocated finitely
\* often and not undone, so all of it is: eventually the queue is settled
\* for good.
C13_Liveness == <>[]Settled

----------------------------------------------------------------------------
\* t sits as a waiter: in a wait queue, or taken by a drain that has not yet
\* handed it to a schedule call
Pending(t) == PendingPlaces(t) # {}

\* runnable u was appended to the wait queue of t and that was the last thing
\* its body or its creator asked for
WaitedOn(u, t) ==
  /\ kind[u] = "runnable" /\ dependences[u] = << t >>
  /\ Has(events[u], "a") /\ ~Has(AfterLast(events[u], "a"), "r")

\* aggregate g has visited its slot for t and no call is working on g
VisitedAndLeft(g, t) ==
  /\ kind[g] = "aggregate"
  /\ \E i \in DOMAIN deps[g] : dependences[g][i] = t /\ deps[g][i] = NoTask
  /\ ~\E x \in Frames : FrameAt(x).task = g

\* C14: no premature quiescence.  When a complete call on a runnable task
\* that did not ask to respawn is about to decrement the ready count, the
\* task was finalized, its wait queue and the waiters taken from it are used
\* up, every runnable task that waited on it was pushed with the ready count
\* incremented, and every aggregate that has passed it sits in the next wait
\* queue or was completed.  So the ready count never reads zero (is_done() is
\* never true) while a task is in the ready queue, running or waiting.
C14_NoPrematureQuiescence ==
  /\ \A w \in Workers : (At(w, "complete", "decrement") /\ ~Top(w).req) =>
       LET t == Top(w).task IN
       /\ finalized[t] >= 1 /\ closed[t]
       /\ wait_queue[t] = << >>
       /\ \A x \in Frames : FrameAt(x).task = t => FrameAt(x).queue = << >>
       /\ \A u \in Tasks : WaitedOn(u, t) =>
            Only(SinceAppend(u), {"i", "p"}) = << "i", "p" >>
       /\ \A g \in Tasks : VisitedAndLeft(g, t) =>
            (Pending(g) \/ finalized[g] >= 1)
  /\ is_done => \A t \in Tasks :
                  t \notin ready_queue /\ ~Running(t) /\ ~Pending(t)

\* a finishing complete is about to decrement after its drain pushed a
\* waiter: the count is held up by the waiter's increment
C14_Witness ==
  \E w \in Workers : \E u \in Tasks :
    /\ At(w, "complete", "decrement") /\ ~Top(w).req
    /\ WaitedOn(u, Top(w).task) /\ u \in ready_queue
    /\ m_ready_count = 2

----------------------------------------------------------------------------
\* the call in frame x was made by the respawn branch of complete (line 169)
RespawnCall(x) ==
  /\ FrameAt(x).op = "_schedule_runnable_to_queue"
  /\ x[2] > 1
  /\ stack[x[1]][x[2] - 1].op = "complete"
  /\ stack[x[1]][x[2] - 1].task = FrameAt(x).task

\* C15: the release of the predecessor by _schedule_runnable_to_queue.  A
\* call that has made its append attempt and stands before line 233 is about
\* to release the predecessor if and only if it schedules a respawn (one
\* release, after the attempt, whether it succeeded or not; none for a task
\* that is not a respawn); and the predecessor of a respawn is not deallocated
\* before or during the attempt.
C15_PredecessorReleasedOnce ==
  \A x \in Frames :
    LET f == FrameAt(x)
        t == f.task
    IN f.op = "_schedule_runnable_to_queue" =>
         /\ (f.pc = "append" /\ m_predecessor[t] # NoTask /\ RespawnCall(x))
              => ~Dead(m_predecessor[t])
         /\ f.pc = "release" =>
              /\ ReleasesPredecessor(respawn_flag[t]) <=> RespawnCall(x)
              /\ RespawnCall(x) => ~Dead(f.predecessor)

----------------------------------------------------------------------------
\* worker w takes the step of schedule_aggregate that follows the append
\* attempt on a slot's predecessor (lines 293-303)
AfterAttempt(w) ==
  At(w, "schedule_aggregate", "release") /\ stack'[w] # stack[w]

Stops(w)     == stack'[w] = SubSeq(stack[w], 1, Len(stack[w]) - 1)
Continues(w) == stack'[w] = [stack[w] EXCEPT ![Len(stack[w])].pc = "scan"]

ReleasesSlotReference(p) ==
  /\ refcount'[p] = refcount[p] - 1
  /\ deallocated'[p] = deallocated[p] + (IF refcount[p] = 1 THEN 1 ELSE 0)

\* C16 as stated: after a failed append the slot's reference on the
\* predecessor is released (deallocating at zero) and the scan continues;
\* after a successful append the scan stops and the call leaves the
\* predecessor's reference count as it is.
C16_ReleasedOnlyOnFailure ==
  [][ \A w \in Workers : AfterAttempt(w) =>
        LET p == Top(w).predecessor
        IN IF Top(w).pred_not_ready
           THEN Stops(w) /\ refcount'[p] = refcount[p]
           ELSE Continues(w) /\ ReleasesSlotReference(p) ]_vars

\* C16 as amended: the slot's reference on the predecessor is released by
\* this call right after the append attempt whether it failed or succeeded
\* (deallocating at zero); the scan continues after a failed append and stops
\* after a successful one.
C16_ReleasedAfterAttempt ==
  [][ \A w \in Workers : AfterAttempt(w) =>
        LET p == Top(w).predecessor
        IN /\ ReleasesSlotReference(p)
           /\ IF Top(w).pred_not_ready THEN Stops(w) ELSE Continues(w) ]_vars

\* an aggregate of two predecessors found the last one complete, released
\* and thereby deallocated it, went on, was appended to the first one, and
\* its call has returned
C16_Witness ==
  \E g \in Tasks :
    /\ kind[g] = "aggregate" /\ Len(dependences[g]) = 2
    /\ deps[g] = << NoTask, NoTask >>
    /\ dispatched[g] = 0
    /\ \E i \in DOMAIN wait_queue[dependences[g][1]] :
         wait_queue[dependences[g][1]][i] = g
    /\ Dead(dependences[g][2])
    /\ refcount[dependences[g][1]] = 1
    /\ ~\E x \in Frames : FrameAt(x).task = g

----------------------------------------------------------------------------
\* slot i of aggregate g is the last one that is not nullptr
LastNonNull(g, i) ==
  /\ i \in DOMAIN deps[g] /\ deps[g][i] # NoTask
  /\ \A j \in DOMAIN deps[g] : j > i => deps[g][j] = NoTask

\* worker w takes the step of schedule_aggregate's loop that visits a slot
ScanStep(w) == At(w, "schedule_aggregate", "scan") /\ stack'[w] # stack[w]

\* C17: the scan of schedule_aggregate.  The slots visited so far are the
\* last ones and are nullptr, the others still hold the predecessors given
\* at creation; the aggregate sits in at most one wait queue, and in none
\* while a scan of it goes on or while it is completed; it is completed only
\* with every slot nullptr.  Every step of the scan visits the last slot that
\* is not nullptr, nulls it and makes the append attempt on its predecessor,
\* leaving the lower slots as they are, or, with every slot nullptr, calls
\* complete; a slot that is nullptr stays so, hence gets no second attempt,
\* and no more appends succeed than slots were visited.
C17_AggregateScanOrder ==
  /\ [](\A g \in Tasks : kind[g] = "aggregate" =>
         /\ \E k \in 0..Len(deps[g]) :
              \A i \in DOMAIN deps[g] :
                deps[g][i] = (IF i <= k THEN dependences[g][i] ELSE NoTask)
         /\ Cardinality(PendingPlaces(g)) <= 1
         /\ appended[g] <= Cardinality({ i \in DOMAIN deps[g] :
                                           deps[g][i] = NoTask })
         /\ \A x \in Frames :
              ( /\ FrameAt(x).task = g
                /\ \/ FrameAt(x).op = "_complete_finished_task"
                   \/ FrameAt(x).op = "schedule_aggregate" /\ FrameAt(x).pc = "scan" )
              => ~Pending(g)
         /\ \A x \in Frames :
              (FrameAt(x).task = g /\ FrameAt(x).op = "_complete_finished_task")
              => \A i \in DOMAIN deps[g] : deps[g][i] = NoTask
         /\ finalized[g] >= 1 => \A i \in DOMAIN deps[g] : deps[g][i] = NoTask)
  /\ [][ /\ \A g \in Tasks : \A i \in DOMAIN deps[g] :
              deps[g][i] = NoTask => deps'[g][i] = NoTask
         /\ \A w \in Workers : ScanStep(w) =>
              LET g == Top(w).task
                  after == stack'[w][Len(stack[w])]
              IN /\ \A i \in DOMAIN deps[g] :
                      deps'[g][i] = IF LastNonNull(g, i) THEN NoTask
                                    ELSE deps[g][i]
                 /\ \A i \in DOMAIN deps[g] : LastNonNull(g, i) =>
                      /\ after.op = "schedule_aggregate" /\ after.pc = "release"
                      /\ after.predecessor = deps[g][i]
                      /\ after.pred_not_ready = ~closed[deps[g][i]]
                      /\ after.pred_not_ready =>
                           Head(wait_queue'[deps[g][i]]) = g
                 /\ (\A i \in DOMAIN deps[g] : deps[g][i] = NoTask) =>
                      after.op = "_complete_finished_task" ]_vars

\* an aggregate of two predecessors was appended to the last one with the
\* first slot left as it was, and its call has returned
C17_Witness ==
  \E g \in Tasks :
    /\ kind[g] = "aggregate" /\ Len(dependences[g]) = 2
    /\ deps[g] = << dependences[g][1], NoTask >>
    /\ \E i \in DOMAIN wait_queue[dependences[g][2]] :
         wait_queue[dependences[g][2]][i] = g
    /\ ~\E x \in Frames : FrameAt(x).task = g

----------------------------------------------------------------------------
\* worker w is inside a complete(AggregateTask&&) call
InAggregateComplete(w) ==
  \E k \in DOMAIN stack[w] :
    /\ stack[w][k].op = "_complete_finished_task"
    /\ kind[stack[w][k].task] = "aggregate"

\* C18: complete(AggregateTask&&) and the ready count.  No increment, push
\* or decrement is ever made for an aggregate; and a step of a worker inside
\* a complete(aggregate) call leaves the ready count as it is unless it is the
\* increment of a schedule call for a runnable waiter, which adds one and is
\* followed by that waiter's push.
C18_AggregateCompleteAndReadyCount ==
  /\ [](\A g \in Tasks : kind[g] = "aggregate" =>
          /\ Only(events[g], {"i", "d", "p"}) = << >>
          /\ g \notin ready_queue)
  /\ [][ \A w \in Workers :
           (InAggregateComplete(w) /\ stack'[w] # stack[w]) =>
             \/ m_ready_count' = m_ready_count
             \/ /\ m_ready_count' = m_ready_count + 1
                /\ Top(w).op = "_schedule_runnable_to_queue"
                /\ kind[Top(w).task] = "runnable"
                /\ stack'[w] = [stack[w] EXCEPT ![Len(stack[w])].pc = "push"] ]_vars

\* a complete(aggregate) call has notified its wait queue and thereby pushed
\* a runnable waiter: the count moved by that waiter's increment alone
C18_Witness ==
  \E w \in Workers : \E u \in Tasks :
    /\ At(w, "_complete_finished_task", "dispatch")
    /\ kind[Top(w).task] = "aggregate" /\ Top(w).queue = << >>
    /\ WaitedOn(u, Top(w).task) /\ u \in ready_queue
    /\ events[u] = << "a", "i", "p" >>

----------------------------------------------------------------------------
\* some task still refers to t: a runnable task as its predecessor, an
\* aggregate in a slot, or a schedule call that holds it as the predecessor
\* of an append attempt it has not yet let go of
ReferredTo(t) ==
  \/ \E u \in Tasks : kind[u] = "runnable" /\ m_predecessor[u] = t
  \/ \E g \in Tasks : kind[g] = "aggregate" /\
       \E i \in DOMAIN deps[g] : deps[g][i] = t
  \/ \E x \in Frames : /\ FrameAt(x).pc = "release"
                       /\ FrameAt(x).predecessor = t
                       /\ \/ FrameAt(x).op = "schedule_aggregate"
                          \/ RespawnCall(x)

\* C19: a deallocated task was finalized, has no task linked in its wait
\* queue, and no task, slot or append attempt in progress refers to it; no
\* step of a schedule or complete call (or of the driver) has operated on a
\* task after its deallocation.
C19_NoUseAfterDeallocate ==
  /\ \A t \in Tasks : Dead(t) =>
       /\ finalized[t] >= 1
       /\ wait_queue[t] = << >>
       /\ ~ReferredTo(t)
  /\ ~uaf

----------------------------------------------------------------------------
\* C20: the ready count is never negative, and at no time were more
\* decrements than increments made for a task: every decrement is preceded
\* by an increment for the same task that no earlier decrement has used up
\* (the history of a task only grows, so this covers each of its prefixes).
C20_ReadyCountNonNegative ==
  /\ m_ready_count >= 0
  /\ \A t \in Tasks : Incs(t) >= Decs(t)

\* a task respawned, was run again and completed by another worker, which
\* finalized it and made its decrement, while the respawning complete call
\* has not yet reached its own decrement
C20_Witness ==
  \E w \in Workers :
    /\ At(w, "complete", "decrement") /\ Top(w).req
    /\ RespawnedOnceReady(Top(w).task)
    /\ finalized[Top(w).task] = 1
    /\ ReadyCountEvents(events[Top(w).task]) = << "i", "i", "d" >>
    /\ m_ready_count = 1
====
